---- MODULE Spec2Model ----
(***************************************************************************)
(* Model of src/services/ultra_detailed_analysis_engine.py:                *)
(* UltraDetailedAnalysisEngine.generate_gigantic_analysis and the stages   *)
(* it drives (research, six AI-backed sections, six template sections,     *)
(* consolidation, expansion, emergency report).                            *)
(*                                                                         *)
(* One behaviour is one call of generate_gigantic_analysis.  The three     *)
(* collaborators (search, content extraction, text completion) and the     *)
(* progress callback are the environment: each call to one of them is a    *)
(* nondeterministic choice among the answers listed below.                 *)
(*                                                                         *)
(* Texts are sequences of tokens; every length is a length in characters   *)
(* of the text the code would handle for the representative inputs named   *)
(* in the comments.                                                        *)
(***************************************************************************)
EXTENDS Integers, Sequences, FiniteSets, TLC

(***************************************************************************)
(* Bounds of the model.                                                    *)
(***************************************************************************)
\* Most search results the search collaborator hands out during one run.
MaxResults == 5
\* Most collaborator calls of one run that fail the run's data: extraction
\* calls that raise and completion calls that do not answer with a payload.
MaxFaults == 1
\* Most tokens of a payload handed to response recovery.
MaxPayloadLen == 5
\* results a gather studied alone may collect
MaxGathered == 7
\* results of the research whose prompts are studied alone
MaxEvidence == 12

(***************************************************************************)
(* Program constants.                                                      *)
(***************************************************************************)
min_report_length == 30000
max_search_queries == 15
TopPerQuery == 5
RawResponseCap == 1000

(***************************************************************************)
(* Small helpers.                                                          *)
(***************************************************************************)
Min(a, b) == IF a < b THEN a ELSE b

RECURSIVE SumSeq(_)
SumSeq(s) == IF s = <<>> THEN 0 ELSE Head(s) + SumSeq(Tail(s))

\* s[:n]
Take(s, n) == SubSeq(s, 1, Min(n, Len(s)))

\* len(str(n)) for n >= 0
RECURSIVE Digits(_)
Digits(n) == IF n < 10 THEN 1 ELSE 1 + Digits(n \div 10)

(***************************************************************************)
(* The request (the dict `data`).  A field is described by the kind of     *)
(* value it holds.                                                         *)
(*   segmento: "missing" (no key), "empty" (''), "null" (None),            *)
(*             "given" ('fitness')                                         *)
(*   produto:  "absent", "one" ('curso'), "two" ('curso online')           *)
(*   preco:    "absent", "numeric" ('100'), "zero" ('0'), "text" ('abc')   *)
(***************************************************************************)
SegKinds == {"missing", "empty", "null", "given"}
ProdKinds == {"absent", "one", "two"}
PrecoKinds == {"absent", "numeric", "zero", "text"}
Requests == [segmento : SegKinds, produto : ProdKinds, preco : PrecoKinds]

\* The requests of the whole-run specification: the product only adds
\* queries, which the research specification explores.
RunRequests == {d \in Requests : d.produto = "absent"}
\* The requests of the research specification: _perform_massive_research
\* reads the segment and the product only.
ResearchRequests == {d \in Requests : d.preco = "absent"}

\* data.get('segmento', ''), as the f-strings of the queries render it
SegInQuery(d) ==
    CASE d.segmento = "missing" -> ""
      [] d.segmento = "empty" -> ""
      [] d.segmento = "null" -> "None"
      [] d.segmento = "given" -> "fitness"

\* SegInSection with data.get('segmento', ''), the default of the queries
SegInSection_emptyDefault(d) ==
    CASE d.segmento = "missing" -> ""
      [] d.segmento = "empty" -> ""
      [] d.segmento = "null" -> "None"
      [] d.segmento = "given" -> "fitness"

\* data.get('segmento', 'negócios'): the value the section generators use
SegInSection(d) ==
    CASE d.segmento = "missing" -> "negócios"
      [] d.segmento = "empty" -> ""
      [] d.segmento = "null" -> "None"
      [] d.segmento = "given" -> "fitness"

\* whitespace-separated tokens / characters of the representative strings
StrTokens(s) ==
    CASE s = "" -> 0
      [] s = "curso online" -> 2
      [] OTHER -> 1

StrLen(s) ==
    CASE s = "" -> 0
      [] s = "None" -> 4
      [] s = "fitness" -> 7
      [] s = "negócios" -> 8
      [] s = "curso" -> 5
      [] s = "curso online" -> 12

ProdString(d) ==
    CASE d.produto = "absent" -> ""
      [] d.produto = "one" -> "curso"
      [] d.produto = "two" -> "curso online"

(***************************************************************************)
(* _perform_massive_research: the queries.  A query is kept as its number  *)
(* in the list and its count of whitespace-separated tokens.               *)
(***************************************************************************)
\* words of each segment template besides {segmento}
SegmentTemplates == <<6, 4, 3, 3, 4, 3, 3, 4, 4, 4>>
\* words of each product template besides {produto}
ProductTemplates == <<3, 2, 3, 3, 2>>

search_queries(d) ==
    LET seg == [i \in 1..Len(SegmentTemplates) |->
                  [id |-> i, tokens |-> SegmentTemplates[i] + StrTokens(SegInQuery(d))]]
        prod == [i \in 1..Len(ProductTemplates) |->
                  [id |-> Len(SegmentTemplates) + i,
                   tokens |-> ProductTemplates[i] + StrTokens(ProdString(d))]]
    IN  IF d.produto # "absent" THEN seg \o prod ELSE seg

\* ExecutedQueries that drops the queries of fewer than four tokens
ExecutedQueries_longOnly(d) ==
    SelectSeq(Take(search_queries(d), max_search_queries),
              LAMBDA q : q.tokens >= 4)

\* search_queries[:self.max_search_queries]
ExecutedQueries(d) == Take(search_queries(d), max_search_queries)

(***************************************************************************)
(* The search collaborator answers a query by raising or with one of these *)
(* result lists.  A result is its url and its title:                       *)
(*   urls   "" (empty), "a", "b", "c"                                     *)
(*   titles "plain" ('Mercado fitness'), "rival" ('Concorrentes fitness')  *)
(***************************************************************************)
SearchMenu ==
    { <<>>,
      << [url |-> "", title |-> "plain"], [url |-> "a", title |-> "rival"] >>,
      << [url |-> "a", title |-> "plain"], [url |-> "c", title |-> "plain"],
         [url |-> "b", title |-> "rival"] >> }

\* The answers of the search collaborator when research is studied alone:
\* those above and a list of six results, one more than the loop of lines
\* 211-215 takes from a query, in which urls come more than once.
WideSearchMenu ==
    SearchMenu \cup
    { << [url |-> "a", title |-> "plain"], [url |-> "b", title |-> "plain"],
         [url |-> "c", title |-> "rival"], [url |-> "a", title |-> "plain"],
         [url |-> "b", title |-> "plain"], [url |-> "c", title |-> "plain"] >> }

\* The content-extraction collaborator answers a url by raising or with the
\* page's text, given by its length: nothing for the empty url, 300 characters
\* for a and c, 150 for b, 600 for d.
PageLen(url) ==
    CASE url = "a" -> 300
      [] url = "b" -> 150
      [] url = "c" -> 300
      [] url = "d" -> 600
      [] OTHER -> 0

VARIABLES
    data,                \* the request
    progress_callback,   \* "none" or "present"
    payload,             \* the scalar the completion service of this run puts
                         \* in its payloads: "S" (long) or "n" (short)
    pc,                  \* "start", "research", "phase", "consolidate",
                         \* "returned" (a report reached the caller),
                         \* "raised" (an exception reached the caller);
                         \* for the response handling alone: "recover",
                         \* "recovered"
    phase,               \* the phase (1..13) about to start or running
    qi,                  \* research: index of the next query
    all_results,         \* research: list of result dicts
    total_content_chars, \* research: sum of extracted lengths
    research_data,       \* what _perform_massive_research returned
    sections,            \* avatar_data, drivers_data, ... of the run
    report,              \* the dict returned to the caller
    caught,              \* what the handler of line 152 caught, and in which phase
    escaped,             \* the exception that reached the caller
    faults,              \* extraction calls that raised and completion calls
                         \* that gave no payload, so far
    search_answer,       \* what the search collaborator did in the latest step:
                         \* "none" (not called), "raised", "empty", "results"
    completion_answer,   \* what the completion collaborator did in the latest
                         \* step, and for which section
    searchLog,           \* queries passed to the search collaborator
    extractLog,          \* urls passed to the extraction collaborator
    completionLog,       \* sections whose prompt went to the completion collaborator
    notifyLog,           \* phases announced to the progress callback
    prompt_chars,        \* length of the prompt of the latest completion call
    recovery             \* the response handling alone: a payload, the fence
                         \* put around it, and what the avatar generator made
                         \* of the payload bare, of the payload wrapped and
                         \* of the payload amid commentary

vars == << data, progress_callback, payload, pc, phase, qi, all_results,
           total_content_chars, research_data, sections, report, caught,
           escaped, faults, search_answer, completion_answer, searchLog,
           extractLog, completionLog, notifyLog, prompt_chars, recovery >>

NoAnswer == [section |-> "none", raised |-> FALSE, text |-> <<>>]

NoResearch ==
    [total_queries |-> 0, total_resultados |-> 0, resultados_detalhados |-> <<>>,
     conteudo_extraido_chars |-> 0, returned |-> FALSE]

NothingCaught == [error |-> "none", phase |-> 0]

(***************************************************************************)
(* One iteration of the query loop (lines 188-221).                        *)
(***************************************************************************)
\* result dicts of one query after the extraction loop, when extraction
\* raises at position `fail` (0: never): results before it carry their
\* content (0: no 'extracted_content' key)
\* WithContent that keeps a text only when it is longer than 200 characters
WithContent_over200(results, fail) ==
    [j \in 1..Len(results) |->
        [url |-> results[j].url, title |-> results[j].title,
         content |-> IF /\ j <= TopPerQuery /\ (fail = 0 \/ j < fail)
                        /\ PageLen(results[j].url) > 200
                     THEN PageLen(results[j].url) ELSE 0]]

\* WithContent that drops the results whose url is empty
WithContent_dropsEmptyUrl(results, fail) ==
    LET kept == SelectSeq(results, LAMBDA r : r.url # "")
    IN  [j \in 1..Len(kept) |->
            [url |-> kept[j].url, title |-> kept[j].title,
             content |-> IF j <= TopPerQuery /\ (fail = 0 \/ j < fail)
                         THEN PageLen(kept[j].url) ELSE 0]]

WithContent(results, fail) ==
    [j \in 1..Len(results) |->
        [url |-> results[j].url, title |-> results[j].title,
         content |-> IF j <= TopPerQuery /\ (fail = 0 \/ j < fail)
                     THEN PageLen(results[j].url) ELSE 0]]

\* Attempted that leaves extraction for after the query loop
Attempted_deferred(results, fail) == <<>>

\* Attempted without the slice [:5]
Attempted_uncapped(results, fail) ==
    LET n == Len(results)
    IN  [j \in 1..(IF fail = 0 THEN n ELSE fail) |-> results[j].url]

\* urls handed to extract_content in that iteration
Attempted(results, fail) ==
    LET n == Min(Len(results), TopPerQuery)
    IN  [j \in 1..(IF fail = 0 THEN n ELSE fail) |-> results[j].url]

\* extend_results whose except clause starts the list over
extend_results_resets(all, searchRaises, results, fail) ==
    IF searchRaises THEN <<>> ELSE all \o WithContent(results, fail)

\* line 208 and lines 211-215, or the except clause of line 219 when the
\* search raised
extend_results(all, searchRaises, results, fail) ==
    IF searchRaises THEN all ELSE all \o WithContent(results, fail)

\* lengths of the texts the results of one query carry
Contents(results) == [j \in 1..Len(results) |-> results[j].content]

\* research_return that counts only the results that carry a text
research_return_countsExtracted(d, results, chars) ==
    [total_queries |-> Len(ExecutedQueries(d)),
     total_resultados |-> Len(SelectSeq(results, LAMBDA r : r.content > 0)),
     resultados_detalhados |-> results,
     conteudo_extraido_chars |-> chars,
     returned |-> TRUE]

\* lines 223-230: the dict _perform_massive_research returns
research_return(d, results, chars) ==
    [total_queries |-> Len(ExecutedQueries(d)),
     total_resultados |-> Len(results),
     resultados_detalhados |-> results,
     conteudo_extraido_chars |-> chars,
     returned |-> TRUE]


(***************************************************************************)
(* Model responses.  A response is a sequence of tokens:                   *)
(*   "FJ" the fence ```json      "F" the fence ```                         *)
(*   "{" "}" "[" "]" brackets    "n" a short scalar (7)                    *)
(*   "S" a scalar literal of 3000 characters, none of which JSON escapes   *)
(*   "t" commentary of 1200 letters   "_" a blank                          *)
(*   "q" a double quote: a string literal is "q", its text, "q"            *)
(***************************************************************************)
TokLen(t) ==
    CASE t = "FJ" -> 7
      [] t = "F" -> 3
      [] t = "S" -> 3000
      [] t = "t" -> 1200
      [] OTHER -> 1

RECURSIVE TextLen(_)
TextLen(s) == IF s = <<>> THEN 0 ELSE TokLen(Head(s)) + TextLen(Tail(s))

\* str.strip()
RECURSIVE LStrip(_)
LStrip(s) == IF s # <<>> /\ Head(s) = "_" THEN LStrip(Tail(s)) ELSE s

RECURSIVE RStrip(_)
RStrip(s) ==
    IF s # <<>> /\ s[Len(s)] = "_" THEN RStrip(SubSeq(s, 1, Len(s) - 1)) ELSE s

Strip(s) == RStrip(LStrip(s))

\* str.find / str.rfind of a fence, as token positions (0: not found).
\* "```json" begins with "```", so rfind("```") also stops at an "FJ".
FindTok(s, toks) ==
    IF \E i \in 1..Len(s) : s[i] \in toks
    THEN CHOOSE i \in 1..Len(s) :
            s[i] \in toks /\ \A j \in 1..(i - 1) : s[j] \notin toks
    ELSE 0

RFindTok(s, toks) ==
    IF \E i \in 1..Len(s) : s[i] \in toks
    THEN CHOOSE i \in 1..Len(s) :
            s[i] \in toks /\ \A j \in (i + 1)..Len(s) : s[j] \notin toks
    ELSE 0

\* clean_response that then keeps what lies between the first opening
\* bracket and the last closing bracket of its kind
clean_response_slicesBrackets(response) ==
    LET c == Strip(response)
        unfenced ==
            IF FindTok(c, {"FJ"}) # 0
            THEN Strip(SubSeq(c, FindTok(c, {"FJ"}) + 1, RFindTok(c, {"F", "FJ"}) - 1))
            ELSE IF FindTok(c, {"F"}) # 0
            THEN Strip(SubSeq(c, FindTok(c, {"F"}) + 1, RFindTok(c, {"F"}) - 1))
            ELSE c
        first == FindTok(unfenced, {"{", "["})
        last == IF first = 0 THEN 0
                ELSE RFindTok(unfenced, {IF unfenced[first] = "{" THEN "}" ELSE "]"})
    IN  IF first # 0 /\ last > first THEN SubSeq(unfenced, first, last) ELSE unfenced

\* lines 315-323: strip, then keep what lies between the first fence and the
\* last one
clean_response(response) ==
    LET c == Strip(response)
    IN  IF FindTok(c, {"FJ"}) # 0
        THEN Strip(SubSeq(c, FindTok(c, {"FJ"}) + 1, RFindTok(c, {"F", "FJ"}) - 1))
        ELSE IF FindTok(c, {"F"}) # 0
        THEN Strip(SubSeq(c, FindTok(c, {"F"}) + 1, RFindTok(c, {"F"}) - 1))
        ELSE c

\* json.loads: the text is one JSON value, with blanks allowed around every
\* token.  Brackets nest by kind; the separators and keys of members are not
\* modelled.  A string literal runs from a quote to the next one, whatever
\* lies between them.  `stack` holds the brackets still open, `done` says a
\* complete top-level value has been read.
RECURSIVE JsonScan(_, _, _)
JsonScan(s, stack, done) ==
    IF s = <<>> THEN stack = <<>> /\ done
    ELSE LET t == Head(s) IN
         CASE t = "_" -> JsonScan(Tail(s), stack, done)
           [] t \in {"{", "["} ->
                 ~done /\ JsonScan(Tail(s), <<t>> \o stack, FALSE)
           [] t \in {"n", "S"} ->
                 ~done /\ JsonScan(Tail(s), stack, stack = <<>>)
           [] t = "q" ->
                 /\ ~done
                 /\ FindTok(Tail(s), {"q"}) # 0
                 /\ JsonScan(SubSeq(Tail(s), FindTok(Tail(s), {"q"}) + 1, Len(Tail(s))),
                             stack, stack = <<>>)
           [] t \in {"}", "]"} ->
                 /\ ~done
                 /\ stack # <<>>
                 /\ Head(stack) = (IF t = "}" THEN "{" ELSE "[")
                 /\ JsonScan(Tail(s), Tail(stack), Len(stack) = 1)
           [] OTHER -> FALSE

json_loads_ok(s) == JsonScan(s, <<>>, FALSE)

\* the value json.loads returns, named by its tokens without the blanks that
\* lie outside string literals
RECURSIVE JsonTokens(_, _)
JsonTokens(s, inString) ==
    IF s = <<>> THEN <<>>
    ELSE IF Head(s) = "q" THEN <<"q">> \o JsonTokens(Tail(s), ~inString)
    ELSE IF Head(s) = "_" /\ ~inString THEN JsonTokens(Tail(s), inString)
    ELSE <<Head(s)>> \o JsonTokens(Tail(s), inString)

json_value(s) == JsonTokens(s, FALSE)

(***************************************************************************)
(* Section values.  A value is described by                                *)
(*   src  "none" (not generated), "parsed" (the value json.loads returned),*)
(*        "fallback" (a _generate_fallback_* template),                    *)
(*        "raw_text" (the fixed pre-pitch structure around the response),  *)
(*        "template" (a section computed without the completion service)   *)
(*   val  the tokens of the parsed value                                   *)
(*   len  the length of json.dumps(value, ensure_ascii=False)              *)
(*   raw  how many characters of the raw response the value embeds         *)
(***************************************************************************)
AISections ==
    {"avatar_data", "drivers_data", "anti_objection_data", "visual_proofs_data",
     "pre_pitch_data", "competition_data"}
TemplateSections ==
    {"positioning_data", "keywords_data", "metrics_data", "projections_data",
     "action_plan_data", "insights_data"}
SectionNames == AISections \cup TemplateSections

NoSection == [src |-> "none", val |-> <<>>, len |-> 0, raw |-> 0]

Parsed(tokens) ==
    [src |-> "parsed", val |-> json_value(tokens),
     len |-> TextLen(json_value(tokens)), raw |-> 0]

SegLen(d) == StrLen(SegInSection(d))

\* _generate_fallback_avatar(data, ai_response)
generate_fallback_avatar(d, ai_response) ==
    [src |-> "fallback", val |-> <<>>,
     len |-> 4247 + 7 * SegLen(d)
             + (IF ai_response # <<>>
                THEN Min(TextLen(ai_response), RawResponseCap) ELSE 41),
     raw |-> Min(TextLen(ai_response), RawResponseCap)]

generate_fallback_drivers(d) ==
    [src |-> "fallback", val |-> <<>>, len |-> 1023 + 7 * SegLen(d), raw |-> 0]

generate_fallback_anti_objection(d) ==
    [src |-> "fallback", val |-> <<>>, len |-> 732, raw |-> 0]

generate_fallback_visual_proofs(d) ==
    [src |-> "fallback", val |-> <<>>, len |-> 582, raw |-> 0]

generate_fallback_pre_pitch(d) ==
    [src |-> "fallback", val |-> <<>>, len |-> 294, raw |-> 0]

generate_fallback_competition(d) ==
    [src |-> "fallback", val |-> <<>>, len |-> 1068 + SegLen(d), raw |-> 0]

(***************************************************************************)
(* What a generator hands back: a value, or an exception that leaves it.   *)
(***************************************************************************)
Returns(v) == [raised |-> FALSE, value |-> v, error |-> "none"]
Raises(e) == [raised |-> TRUE, value |-> NoSection, error |-> e]

\* len(str(e)) of the exceptions of the model
ErrorLen(e) ==
    CASE e = "NameError" -> 26           \* name 'data' is not defined
      [] e = "AttributeError" -> 42      \* 'NoneType' object has no attribute 'lower'
      [] e = "ValueError" -> 40          \* could not convert string to float: 'abc'
      [] e = "ZeroDivisionError" -> 22   \* float division by zero
      [] e = "CallbackError" -> 15       \* raised by the progress callback
      [] OTHER -> 0

\* An answer of the completion collaborator: it raises, or returns `text`
\* (None and '' are both the empty text).
Completion(raised, text) == [raised |-> raised, text |-> text]

\* ParseOrFallback without the `if response:` test: an empty response goes
\* on as the section's value
ParseOrFallback_noEmptyTest(answer, onBadJson, onFailure) ==
    IF answer.raised THEN onFailure
    ELSE IF answer.text = <<>> THEN Parsed(answer.text)
    ELSE IF json_loads_ok(clean_response(answer.text))
         THEN Parsed(clean_response(answer.text))
         ELSE onBadJson

\* lines 309-336, and the same block in _generate_mental_drivers,
\* _generate_anti_objection_system, _generate_visual_proofs and
\* _analyze_deep_competition
ParseOrFallback(answer, onBadJson, onFailure) ==
    IF answer.raised THEN onFailure
    ELSE IF answer.text = <<>> THEN onFailure
    ELSE IF json_loads_ok(clean_response(answer.text))
         THEN Parsed(clean_response(answer.text))
         ELSE onBadJson

\* generate_archaeological_avatar whose JSON-error branch calls the fallback
\* without the response
generate_archaeological_avatar_dropsResponse(d, answer) ==
    Returns(ParseOrFallback(answer, generate_fallback_avatar(d, <<>>),
                            generate_fallback_avatar(d, <<>>)))

generate_archaeological_avatar(d, answer) ==
    Returns(ParseOrFallback(answer, generate_fallback_avatar(d, answer.text),
                            generate_fallback_avatar(d, <<>>)))

generate_mental_drivers(d, answer) ==
    Returns(ParseOrFallback(answer, generate_fallback_drivers(d),
                            generate_fallback_drivers(d)))

generate_anti_objection_system(d, answer) ==
    Returns(ParseOrFallback(answer, generate_fallback_anti_objection(d),
                            generate_fallback_anti_objection(d)))

generate_visual_proofs(d, answer) ==
    Returns(ParseOrFallback(answer, generate_fallback_visual_proofs(d),
                            generate_fallback_visual_proofs(d)))

analyze_deep_competition(d, answer) ==
    Returns(ParseOrFallback(answer, generate_fallback_competition(d),
                            generate_fallback_competition(d)))

\* lines 601-654: a non-empty response is cut into the six scripts of a fixed
\* structure, a script that gets no characters keeps its stock text; the two
\* other branches name `data`, which the method does not have
generate_pre_pitch_system(d, answer) ==
    IF answer.raised \/ answer.text = <<>> THEN Raises("NameError")
    ELSE LET r == TextLen(answer.text) IN
         Returns([src |-> "raw_text", val |-> <<>>,
                  len |-> 1178 + r
                          - (IF r > 500 THEN 22 ELSE 0)
                          - (IF r > 1000 THEN 15 ELSE 0)
                          - (IF r > 1500 THEN 33 ELSE 0)
                          - (IF r > 2000 THEN 24 ELSE 0)
                          - (IF r > 3000 THEN 22 ELSE 0),
                  raw |-> r])

(***************************************************************************)
(* The prompts, by their length in characters.                             *)
(***************************************************************************)
\* len(result['title'])
TitleLen(r) == IF r.title = "rival" THEN 20 ELSE 15

\* lines 238-244: a heading and, for each of the first ten results, a line
\* with its title and snippet and a line with the first 500 characters of
\* its extracted content when it has one
research_context(results) ==
    IF results = <<>> THEN 0
    ELSE 24 + SumSeq([i \in 1..Min(Len(results), 10) |->
                         TitleLen(results[i]) + 16
                         + (IF results[i].content > 0
                            THEN 16 + Min(results[i].content, 500) ELSE 0)])

\* lines 663-667: a line with the title and snippet of every result whose
\* title names competitors
competition_context(results) ==
    SumSeq([i \in 1..Len(results) |->
               IF results[i].title = "rival" THEN TitleLen(results[i]) + 16 ELSE 0])

\* len(str(data.get('segmento')))
SegFieldLen(d) == IF d.segmento = "missing" THEN 4 ELSE StrLen(SegInQuery(d))

\* len(str(data.get('produto', 'Não informado')))
ProdFieldLen(d) == IF d.produto = "absent" THEN 13 ELSE StrLen(ProdString(d))

\* len(str(data.get('preco', 'Não informado'))) for '100', '0' and 'abc'
PrecoFieldLen(d) ==
    CASE d.preco = "absent" -> 13
      [] d.preco = "zero" -> 1
      [] OTHER -> 3

\* len(prompt) of the generator of section `name`, called with the research
\* data `rd` and the sections `secs` generated before it
PromptLen(name, d, rd, secs) ==
    CASE name = "avatar_data" ->
            2154 + SegLen(d) + SegFieldLen(d) + ProdFieldLen(d) + PrecoFieldLen(d)
                 + research_context(rd.resultados_detalhados)
      [] name = "drivers_data" ->
            908 + 2 * SegLen(d) + Min(secs["avatar_data"].len, 2000)
      [] name = "anti_objection_data" ->
            1351 + 2 * SegLen(d) + Min(secs["avatar_data"].len, 1500)
      [] name = "visual_proofs_data" ->
            574 + 2 * SegLen(d) + Min(secs["avatar_data"].len, 1000)
      [] name = "pre_pitch_data" ->
            1436 + Min(secs["avatar_data"].len, 1000)
                 + Min(secs["drivers_data"].len, 1000)
      [] name = "competition_data" ->
            895 + 2 * SegLen(d) + competition_context(rd.resultados_detalhados)

(***************************************************************************)
(* The sections computed without the completion service.                   *)
(***************************************************************************)
Template(n) == [src |-> "template", val |-> <<>>, len |-> n, raw |-> 0]

\* len of a JSON list whose items have the lengths `lens`
JsonListLen(lens) ==
    IF lens = <<>> THEN 2 ELSE 2 + SumSeq(lens) + 2 * (Len(lens) - 1)

\* f"{n:,}"
CommaDigits(n) == Digits(n) + (Digits(n) - 1) \div 3

generate_positioning_strategy(d) == Returns(Template(1637 + 6 * SegLen(d)))

\* lines 760-769 and 849: the words of more than three letters of the titles
\* and snippets; 'Mercado fitness' and 'Concorrentes fitness' with the snippet
\* 'Dados reais' give mercado, concorrentes, fitness, dados, reais
ResearchWords(results) ==
    LET plain == \E i \in 1..Len(results) : results[i].title = "plain"
        rival == \E i \in 1..Len(results) : results[i].title = "rival"
    IN  (IF plain THEN <<9>> ELSE <<>>) \o (IF rival THEN <<14>> ELSE <<>>)
        \o (IF plain \/ rival THEN <<9, 7, 7>> ELSE <<>>)

\* segmento.lower() fails on None
generate_keyword_strategy(d, results) ==
    IF d.segmento = "null" THEN Raises("AttributeError")
    ELSE Returns(Template(1533 + 33 * SegLen(d) + JsonListLen(ResearchWords(results))))

\* float(data.get('preco', 997)) if data.get('preco') else 997, then
\* divisions by preco
generate_performance_metrics(d) ==
    CASE d.preco = "absent" -> Returns(Template(1317))
      [] d.preco = "numeric" -> Returns(Template(1318))
      [] d.preco = "zero" -> Raises("ZeroDivisionError")
      [] d.preco = "text" -> Raises("ValueError")

generate_projections(d) == Returns(Template(966))

generate_action_plan(d) == Returns(Template(2223 + 2 * SegLen(d)))

\* lines 1027-1059: fifteen stock insights, and five more when the research
\* has results
generate_exclusive_insights(d, rd) ==
    IF rd.resultados_detalhados = <<>>
    THEN Returns(Template(1639 + 6 * SegLen(d)))
    ELSE Returns(Template(2063 + 8 * SegLen(d)
                          + Digits(Len(rd.resultados_detalhados))
                          + CommaDigits(rd.conteudo_extraido_chars)
                          + Digits(rd.total_queries)))

(***************************************************************************)
(* Serialized lengths: json.dumps(..., ensure_ascii=False).                *)
(***************************************************************************)
\* a result dict: 'Mercado fitness' / 'Concorrentes fitness', 'https://a.com',
\* snippet 'Dados reais', source 'web', an isoformat timestamp
ResultLen(r) ==
    134 + (IF r.title = "rival" THEN 20 ELSE 15)
        + (IF r.url = "" THEN 0 ELSE 13)
        + (IF r.content > 0 THEN 25 + r.content ELSE 0)

\* the dict _perform_massive_research returns
ResearchLen(d, rd) ==
    550 + 10 * StrLen(SegInQuery(d))
        + (IF d.produto = "absent" THEN 0 ELSE 134 + 5 * StrLen(ProdString(d)))
        + (Digits(rd.total_resultados) - 1)
        + (Digits(rd.conteudo_extraido_chars) - 1)
        + (JsonListLen([i \in 1..Len(rd.resultados_detalhados) |->
                           ResultLen(rd.resultados_detalhados[i])]) - 2)

\* characters of repr(time.time() - start_time)
ProcessingTimeChars == 20

\* the metadata dict of lines 130-136 holding report_length = n
MetadataLen(n) == 137 + ProcessingTimeChars + Digits(n)

SectionsLen(secs) ==
    LET RECURSIVE Sum(_)
        Sum(S) == IF S = {} THEN 0
                  ELSE LET x == CHOOSE x \in S : TRUE
                       IN  secs[x].len + Sum(S \ {x})
    IN  Sum(DOMAIN secs)

\* json.dumps(final_analysis) for the dict of lines 116-137 with
\* metadata.report_length = n: 14 keys around the values
FinalAnalysisLen(d, secs, rd, n) ==
    374 + SectionsLen(secs) + ResearchLen(d, rd) + MetadataLen(n)

\* the eight sections _expand_analysis_to_minimum adds, with their keys
ExtraSectionsLen(d) ==
    205 + (1647 + 2 * SegLen(d)) + (939 + SegLen(d)) + (1208 + 2 * SegLen(d))
        + (IF d.preco = "numeric" THEN 940 ELSE 943)
        + 1137 + 904 + 843 + (660 + 5 * SegLen(d))

(***************************************************************************)
(* The report handed to the caller.                                        *)
(*   mode           "normal" or "emergency" (metadata.mode)                *)
(*   expanded       _expand_analysis_to_minimum added its sections         *)
(*   sections       the twelve section values                              *)
(*   report_length  metadata.report_length                                 *)
(*   length         len(json.dumps(report, ensure_ascii=False))            *)
(*   quality_score  metadata.quality_score, in tenths                      *)
(*   error          metadata.error                                         *)
(***************************************************************************)
NoSections == [s \in SectionNames |-> NoSection]

NoReport ==
    [mode |-> "none", expanded |-> FALSE, sections |-> NoSections,
     report_length |-> 0, length |-> 0, quality_score |-> 0, error |-> "none"]

\* lines 1061-1083
expand_analysis_to_minimum(d, secs, rd, text_len) ==
    LET final_length == FinalAnalysisLen(d, secs, rd, text_len) + ExtraSectionsLen(d)
    IN  [mode |-> "normal", expanded |-> TRUE, sections |-> secs,
         report_length |-> final_length,
         length |-> final_length - Digits(text_len) + Digits(final_length),
         quality_score |-> 995, error |-> "none"]

\* lines 115-150
consolidate(d, secs, rd) ==
    LET text_len == FinalAnalysisLen(d, secs, rd, 0)
    IN  IF text_len < min_report_length
        THEN expand_analysis_to_minimum(d, secs, rd, text_len)
        ELSE [mode |-> "normal", expanded |-> FALSE, sections |-> secs,
              report_length |-> text_len,
              length |-> text_len - 1 + Digits(text_len),
              quality_score |-> 995, error |-> "none"]

\* lines 1573-1613.  The dict is built entry by entry, so the first generator
\* that raises decides the exception that leaves _generate_emergency_analysis.
EmergencySections(d, error) ==
    [s \in SectionNames |->
        CASE s = "avatar_data" -> generate_fallback_avatar(d, <<>>)
          [] s = "drivers_data" -> generate_fallback_drivers(d)
          [] s = "anti_objection_data" -> generate_fallback_anti_objection(d)
          [] s = "visual_proofs_data" -> generate_fallback_visual_proofs(d)
          [] s = "pre_pitch_data" -> generate_fallback_pre_pitch(d)
          [] s = "competition_data" -> generate_fallback_competition(d)
          [] s = "positioning_data" -> generate_positioning_strategy(d).value
          [] s = "keywords_data" -> generate_keyword_strategy(d, <<>>).value
          [] s = "metrics_data" -> generate_performance_metrics(d).value
          [] s = "projections_data" -> generate_projections(d).value
          [] s = "action_plan_data" -> generate_action_plan(d).value
          [] s = "insights_data" ->
                Template(271 + SegLen(d) + ErrorLen(error))]

generate_emergency_analysis(d, error) ==
    IF generate_keyword_strategy(d, <<>>).raised
    THEN [raised |-> TRUE, error |-> generate_keyword_strategy(d, <<>>).error,
          report |-> NoReport]
    ELSE IF generate_performance_metrics(d).raised
    THEN [raised |-> TRUE, error |-> generate_performance_metrics(d).error,
          report |-> NoReport]
    ELSE [raised |-> FALSE, error |-> "none",
          report |->
            [mode |-> "emergency", expanded |-> FALSE,
             sections |-> EmergencySections(d, error),
             report_length |-> 0,
             length |-> 374 + SectionsLen(EmergencySections(d, error))
                        + 128 + 173 + ErrorLen(error),
             quality_score |-> 250, error |-> error]]

(***************************************************************************)
(* generate_gigantic_analysis.                                             *)
(***************************************************************************)
Start(requests, callbacks, at) ==
    /\ data \in requests
    /\ progress_callback \in callbacks
    /\ payload \in {"S", "n"}
    /\ pc = at
    /\ phase = 1
    /\ qi = 1
    /\ all_results = <<>>
    /\ total_content_chars = 0
    /\ research_data = NoResearch
    /\ sections = NoSections
    /\ report = NoReport
    /\ caught = NothingCaught
    /\ escaped = "none"
    /\ faults = 0
    /\ search_answer = "none"
    /\ completion_answer = NoAnswer
    /\ searchLog = <<>>
    /\ extractLog = <<>>
    /\ completionLog = <<>>
    /\ notifyLog = <<>>
    /\ prompt_chars = 0

NoRecovery == [payload |-> <<>>, wrapper |-> "none", bare |-> NoSection,
               wrapped |-> NoSection, amid |-> NoSection]

\* a call of generate_gigantic_analysis(data, progress_callback=...)
Init == Start(RunRequests, {"none", "present"}, "start") /\ recovery = NoRecovery

\* a call of _perform_massive_research(data)
InitResearch == Start(ResearchRequests, {"none"}, "research") /\ recovery = NoRecovery

\* HandleException without the emergency report: the exception is logged and
\* raised again
HandleException_reraises(error) ==
    /\ caught' = [error |-> error, phase |-> phase]
    /\ pc' = "raised"
    /\ escaped' = error
    /\ report' = NoReport

\* HandleException that logs the exception, keeps the emergency report and
\* lets the run go on
HandleException_goesOn(error) ==
    LET emergency == generate_emergency_analysis(data, error) IN
    /\ caught' = [error |-> error, phase |-> phase]
    /\ pc' = pc
    /\ escaped' = emergency.error
    /\ report' = emergency.report

\* HandleException that keeps the emergency report and starts the run over
HandleException_startsOver(error) ==
    LET emergency == generate_emergency_analysis(data, error) IN
    /\ caught' = [error |-> error, phase |-> phase]
    /\ pc' = "start"
    /\ escaped' = emergency.error
    /\ report' = emergency.report

\* lines 152-154: the handler around the whole body logs the exception and
\* returns _generate_emergency_analysis(data, str(e)); what that call raises
\* reaches the caller
HandleException(error) ==
    LET emergency == generate_emergency_analysis(data, error) IN
    /\ caught' = [error |-> error, phase |-> phase]
    /\ IF emergency.raised
       THEN /\ pc' = "raised"
            /\ escaped' = emergency.error
            /\ report' = NoReport
       ELSE /\ pc' = "returned"
            /\ escaped' = "none"
            /\ report' = emergency.report

\* `if progress_callback: progress_callback(k, ...)`: the callback, when there
\* is one, returns or raises
CallbackRaises == IF progress_callback = "present" THEN {FALSE, TRUE} ELSE {FALSE}

\* Notified that calls the observer twice
Notified_twice(k) ==
    notifyLog' = IF progress_callback = "present"
                 THEN Append(Append(notifyLog, k), k)
                 ELSE notifyLog

\* lines 43-44, 49-50, ..., 110-111: the observer, when there is one, is
\* called with the number of the phase
Notified(k) ==
    notifyLog' = IF progress_callback = "present" THEN Append(notifyLog, k)
                 ELSE notifyLog

\* lines 42-46: phase 1 is announced and _perform_massive_research entered
BeginResearch ==
    /\ pc = "start"
    /\ Notified(1)
    /\ \E cbRaises \in CallbackRaises :
          IF cbRaises
          THEN HandleException("CallbackError")
          ELSE /\ pc' = "research"
               /\ UNCHANGED << report, caught, escaped >>
    /\ UNCHANGED << recovery, prompt_chars, data, progress_callback, payload, phase, qi, all_results,
                    total_content_chars, research_data, sections, faults,
                    search_answer, completion_answer, searchLog, extractLog,
                    completionLog >>

\* number of results that carry extracted content
Pages(results) == Cardinality({i \in 1..Len(results) : results[i].content > 0})

\* ReturnResearch behind a gate on the number of results
ReturnResearch_resultGate(results, chars) ==
    /\ research_data' = research_return(data, results, chars)
    /\ IF Len(results) < 5
       THEN /\ HandleException("EvidenceInsufficientError")
            /\ UNCHANGED phase
       ELSE /\ pc' = "phase"
            /\ phase' = 2
            /\ UNCHANGED << report, caught, escaped >>

\* ReturnResearch behind a gate on the number of extracted pages
ReturnResearch_pageGate(results, chars) ==
    /\ research_data' = research_return(data, results, chars)
    /\ IF Pages(results) < 3
       THEN /\ HandleException("EvidenceInsufficientError")
            /\ UNCHANGED phase
       ELSE /\ pc' = "phase"
            /\ phase' = 2
            /\ UNCHANGED << report, caught, escaped >>

\* lines 223-230 and 46-52: _perform_massive_research returns its dict, which
\* generate_gigantic_analysis keeps as research_data before it starts phase 2
ReturnResearch(results, chars) ==
    /\ research_data' = research_return(data, results, chars)
    /\ pc' = "phase"
    /\ phase' = 2
    /\ UNCHANGED << report, caught, escaped >>

\* lines 188-230: one iteration of the query loop; after the last one the
\* method returns its dict.  `answer` is what search_with_fallback does,
\* `fail` the position at which extract_content raises (0: it never does).
Query(menu, cap) ==
    /\ pc = "research"
    /\ qi <= Len(ExecutedQueries(data))
    /\ searchLog' = Append(searchLog, ExecutedQueries(data)[qi])
    /\ \E searchRaises \in BOOLEAN, results \in menu :
       \E fail \in 0..Min(Len(results), TopPerQuery) :
          /\ searchRaises => results = <<>> /\ fail = 0
          /\ Len(all_results) + Len(results) <= cap
          /\ fail # 0 => faults < MaxFaults
          /\ faults' = IF fail # 0 THEN faults + 1 ELSE faults
          /\ search_answer' = IF searchRaises THEN "raised"
                              ELSE IF results = <<>> THEN "empty" ELSE "results"
          /\ all_results' = extend_results(all_results, searchRaises, results, fail)
          /\ total_content_chars' =
                total_content_chars
                + SumSeq(Contents(WithContent(results, fail)))
          /\ extractLog' = extractLog \o Attempted(results, fail)
    /\ qi' = qi + 1
    /\ IF qi = Len(ExecutedQueries(data))
       THEN ReturnResearch(all_results', total_content_chars')
       ELSE UNCHANGED << research_data, pc, phase, report, caught, escaped >>
    /\ UNCHANGED << recovery, prompt_chars, data, progress_callback, payload, sections, completion_answer,
                    completionLog, notifyLog >>

\* the query loop inside a whole run
RunQuery == Query(SearchMenu, MaxResults)

\* the query loop of a gather studied alone
RunWideQuery == Query(WideSearchMenu, MaxGathered)

\* The answers of the completion collaborator in a run.
\* commentary, a fenced payload, commentary
PayloadResponses == { <<"t", "FJ", "[", payload, "]", "F", "t">> }
OtherResponses == { <<>>, <<"_">>, <<"t">> }
CompletionAnswers ==
    {Completion(FALSE, r) : r \in PayloadResponses}
    \cup (IF faults < MaxFaults
          THEN {Completion(FALSE, r) : r \in OtherResponses} \cup {Completion(TRUE, <<>>)}
          ELSE {})

IsFault(answer) == answer.raised \/ answer.text \notin PayloadResponses

\* Continue that enters the phase again when its generator handed back a
\* fallback
Continue_retriesFallback(k, name, out) ==
    IF out.raised
    THEN /\ HandleException(out.error)
         /\ UNCHANGED << sections, phase >>
    ELSE IF out.value.src = "fallback"
    THEN UNCHANGED << sections, pc, phase, report, caught, escaped >>
    ELSE /\ sections' = [sections EXCEPT ![name] = out.value]
         /\ pc' = IF k = 13 THEN "consolidate" ELSE "phase"
         /\ phase' = IF k = 13 THEN phase ELSE k + 1
         /\ UNCHANGED << report, caught, escaped >>

\* what follows a generator call of phase k that handed back `out` for
\* section `name`
Continue(k, name, out) ==
    IF out.raised
    THEN /\ HandleException(out.error)
         /\ UNCHANGED << sections, phase >>
    ELSE /\ sections' = [sections EXCEPT ![name] = out.value]
         /\ pc' = IF k = 13 THEN "consolidate" ELSE "phase"
         /\ phase' = IF k = 13 THEN phase ELSE k + 1
         /\ UNCHANGED << report, caught, escaped >>

\* the generator of an AI-backed section, called with the answer its
\* completion call gets
Generate(name, d, answer) ==
    CASE name = "avatar_data" -> generate_archaeological_avatar(d, answer)
      [] name = "drivers_data" -> generate_mental_drivers(d, answer)
      [] name = "anti_objection_data" -> generate_anti_objection_system(d, answer)
      [] name = "visual_proofs_data" -> generate_visual_proofs(d, answer)
      [] name = "pre_pitch_data" -> generate_pre_pitch_system(d, answer)
      [] name = "competition_data" -> analyze_deep_competition(d, answer)

\* A phase whose generator calls ai_manager.generate_analysis once.
AIPhase(k, name) ==
    /\ pc = "phase"
    /\ phase = k
    /\ Notified(k)
    /\ \E cbRaises \in CallbackRaises :
          IF cbRaises
          THEN /\ HandleException("CallbackError")
               /\ completion_answer' = NoAnswer
               /\ UNCHANGED << sections, phase, faults, completionLog, prompt_chars >>
          ELSE \E answer \in CompletionAnswers :
                  /\ completionLog' = Append(completionLog, name)
                  /\ prompt_chars' = PromptLen(name, data, research_data, sections)
                  /\ completion_answer' =
                        [section |-> name, raised |-> answer.raised, text |-> answer.text]
                  /\ faults' = IF IsFault(answer) THEN faults + 1 ELSE faults
                  /\ Continue(k, name, Generate(name, data, answer))
    /\ search_answer' = "none"
    /\ UNCHANGED << recovery, data, progress_callback, payload, qi, all_results,
                    total_content_chars, research_data, searchLog, extractLog >>

\* A phase whose generator calls no collaborator.
TemplatePhase(k, name, out) ==
    /\ pc = "phase"
    /\ phase = k
    /\ Notified(k)
    /\ \E cbRaises \in CallbackRaises :
          IF cbRaises
          THEN /\ HandleException("CallbackError")
               /\ UNCHANGED << sections, phase >>
          ELSE Continue(k, name, out)
    /\ search_answer' = "none"
    /\ completion_answer' = NoAnswer
    /\ UNCHANGED << recovery, prompt_chars, data, progress_callback, payload, qi, all_results,
                    total_content_chars, research_data, faults, searchLog, extractLog,
                    completionLog >>

Phase2_Avatar == AIPhase(2, "avatar_data")
\* the drivers phase placed before the avatar phase
Phase3_Drivers_beforeAvatar == AIPhase(2, "drivers_data")

Phase3_Drivers == AIPhase(3, "drivers_data")
Phase4_AntiObjection == AIPhase(4, "anti_objection_data")
Phase5_VisualProofs == AIPhase(5, "visual_proofs_data")
Phase6_PrePitch == AIPhase(6, "pre_pitch_data")
Phase7_Competition == AIPhase(7, "competition_data")
Phase8_Positioning ==
    TemplatePhase(8, "positioning_data", generate_positioning_strategy(data))
Phase9_Keywords ==
    TemplatePhase(9, "keywords_data",
                  generate_keyword_strategy(data, research_data.resultados_detalhados))
Phase10_Metrics ==
    TemplatePhase(10, "metrics_data", generate_performance_metrics(data))
Phase11_Projections ==
    TemplatePhase(11, "projections_data", generate_projections(data))
Phase12_ActionPlan ==
    TemplatePhase(12, "action_plan_data", generate_action_plan(data))
Phase13_Insights ==
    TemplatePhase(13, "insights_data", generate_exclusive_insights(data, research_data))

\* lines 115-150: the report is put together, measured, expanded when it is
\* short, and returned
Consolidate ==
    /\ pc = "consolidate"
    /\ report' = consolidate(data, sections, research_data)
    /\ pc' = "returned"
    /\ UNCHANGED << recovery, prompt_chars, data, progress_callback, payload, phase, qi, all_results,
                    total_content_chars, research_data, sections, caught, escaped,
                    faults, search_answer, completion_answer, searchLog, extractLog,
                    completionLog, notifyLog >>

Next ==
    \/ BeginResearch
    \/ RunQuery
    \/ Phase2_Avatar
    \/ Phase3_Drivers
    \/ Phase4_AntiObjection
    \/ Phase5_VisualProofs
    \/ Phase6_PrePitch
    \/ Phase7_Competition
    \/ Phase8_Positioning
    \/ Phase9_Keywords
    \/ Phase10_Metrics
    \/ Phase11_Projections
    \/ Phase12_ActionPlan
    \/ Phase13_Insights
    \/ Consolidate

Spec == Init /\ [][Next]_vars

\* The results of a research whose first n queries each found one result,
\* all results alike.
EvidenceKinds == [url : {"", "a", "d"}, title : {"plain", "rival"}]
Evidence(n, kind) ==
    [i \in 1..n |-> [url |-> kind.url, title |-> kind.title,
                     content |-> PageLen(kind.url)]]

\* generate_gigantic_analysis at line 48, after such a research
InitPrompt ==
    /\ data = [segmento |-> "given", produto |-> "one", preco |-> "absent"]
    /\ progress_callback = "none"
    /\ payload \in {"S", "n"}
    /\ pc = "phase"
    /\ phase = 2
    /\ qi = Len(ExecutedQueries(data)) + 1
    /\ \E n \in 0..Min(MaxEvidence, Len(ExecutedQueries(data))), kind \in EvidenceKinds :
          /\ all_results = Evidence(n, kind)
          /\ total_content_chars = n * PageLen(kind.url)
          /\ extractLog = [i \in 1..n |-> kind.url]
          /\ search_answer = IF n = Len(ExecutedQueries(data)) THEN "results" ELSE "empty"
    /\ research_data = research_return(data, all_results, total_content_chars)
    /\ sections = NoSections
    /\ report = NoReport
    /\ caught = NothingCaught
    /\ escaped = "none"
    /\ faults = 0
    /\ completion_answer = NoAnswer
    /\ searchLog = ExecutedQueries(data)
    /\ completionLog = <<>>
    /\ notifyLog = <<>>
    /\ prompt_chars = 0
    /\ recovery = NoRecovery

\* the six phases that send a prompt to the completion collaborator
PromptPhases ==
    \/ Phase2_Avatar
    \/ Phase3_Drivers
    \/ Phase4_AntiObjection
    \/ Phase5_VisualProofs
    \/ Phase6_PrePitch
    \/ Phase7_Competition

SpecPrompt == InitPrompt /\ [][PromptPhases]_vars

\* _perform_massive_research alone
SpecResearch == InitResearch /\ [][RunWideQuery]_vars

(***************************************************************************)
(* The response handling of lines 311-330 alone, on every text of up to    *)
(* MaxPayloadLen tokens, bare and inside a fence with commentary around.   *)
(***************************************************************************)
PayloadTokens == {"[", "]", "{", "}", "n", "q", "F"}

RECURSIVE TextsUpTo(_)
TextsUpTo(n) ==
    IF n = 0 THEN { <<>> }
    ELSE TextsUpTo(n - 1)
         \cup { Append(x, t) : x \in {y \in TextsUpTo(n - 1) : Len(y) = n - 1},
                                t \in PayloadTokens }

\* commentary, an opening fence (```json or ```), the payload on a line of
\* its own, the closing fence, commentary
Wrappers == {"FJ", "F"}
Wrap(fence, text) == <<"t", fence, "_">> \o text \o <<"_", "F", "t">>

\* commentary, the payload, commentary, and no fence
Surround(text) == <<"t", "_">> \o text \o <<"_", "t">>

InitRecover ==
    /\ Start({[segmento |-> "given", produto |-> "absent", preco |-> "absent"]},
             {"none"}, "recover")
    /\ payload = "n"
    /\ \E text \in TextsUpTo(MaxPayloadLen) :
          recovery = [NoRecovery EXCEPT !.payload = text]

\* _generate_archaeological_avatar gets the payload as the answer of its
\* completion call, gets it again inside a fence, and again amid commentary
RecoverResponse ==
    /\ pc = "recover"
    /\ \E fence \in Wrappers :
          recovery' =
            [payload |-> recovery.payload,
             wrapper |-> fence,
             bare |-> generate_archaeological_avatar(
                          data, Completion(FALSE, recovery.payload)).value,
             wrapped |-> generate_archaeological_avatar(
                          data, Completion(FALSE, Wrap(fence, recovery.payload))).value,
             amid |-> generate_archaeological_avatar(
                          data, Completion(FALSE, Surround(recovery.payload))).value]
    /\ pc' = "recovered"
    /\ UNCHANGED << data, progress_callback, payload, phase, qi, all_results,
                    total_content_chars, research_data, sections, report, caught,
                    escaped, faults, search_answer, completion_answer, searchLog,
                    extractLog, completionLog, notifyLog, prompt_chars >>

SpecRecover == InitRecover /\ [][RecoverResponse]_vars

(***************************************************************************)
(* Properties.                                                             *)
(***************************************************************************)
\* the phase that generates a section
PhaseOf(s) ==
    CASE s = "avatar_data" -> 2
      [] s = "drivers_data" -> 3
      [] s = "anti_objection_data" -> 4
      [] s = "visual_proofs_data" -> 5
      [] s = "pre_pitch_data" -> 6
      [] s = "competition_data" -> 7
      [] s = "positioning_data" -> 8
      [] s = "keywords_data" -> 9
      [] s = "metrics_data" -> 10
      [] s = "projections_data" -> 11
      [] s = "action_plan_data" -> 12
      [] s = "insights_data" -> 13

\* the exceptions the emergency builder lets through, by request
EmergencyBuilderError(d) ==
    IF d.segmento = "null" THEN "AttributeError"
    ELSE IF d.preco = "text" THEN "ValueError"
    ELSE IF d.preco = "zero" THEN "ZeroDivisionError"
    ELSE "none"

\* the completion collaborator was called in the latest step and returned
Answered == completion_answer.section # "none" /\ ~completion_answer.raised

\* ... an empty or whitespace-only response
BlankAnswer == Answered /\ Strip(completion_answer.text) = <<>>

\* ... a non-empty response whose cleaned text is no JSON value
MalformedAnswer ==
    /\ Answered
    /\ Strip(completion_answer.text) # <<>>
    /\ ~json_loads_ok(clean_response(completion_answer.text))

\* C1 (as stated): when a stage of the run fails, the run ends in failure and
\* the stage's own error reaches the caller; no fallback report is returned
\* in its place.
C1_StageErrorReachesCaller ==
    caught.error \notin {"none", "CallbackError"} =>
        pc = "raised" /\ escaped = caught.error /\ report = NoReport

\* C1 (amended): an exception that leaves a stage is caught by the handler
\* around the run; no later stage has run and no call is repeated; the run
\* returns the emergency report (mode emergency, quality 25.0, report_length
\* 0, the error's text, fallback sections), and only an exception of the
\* emergency builder itself (null segment, bad price) reaches the caller.
C1_FailureEndsInEmergencyReport ==
    caught.error # "none" =>
        /\ pc \in {"returned", "raised"}
        /\ \A s \in SectionNames : sections[s].src # "none" => PhaseOf(s) < caught.phase
        /\ Len(completionLog) = Cardinality({completionLog[i] : i \in 1..Len(completionLog)})
        /\ pc = "returned" =>
              /\ EmergencyBuilderError(data) = "none"
              /\ report.mode = "emergency"
              /\ report.error = caught.error
              /\ report.report_length = 0
              /\ report.quality_score = 250
              /\ \A s \in AISections : report.sections[s].src = "fallback"
        /\ pc = "raised" =>
              /\ report = NoReport
              /\ escaped # "none"
              /\ escaped = EmergencyBuilderError(data)

C1_Witness ==
    /\ pc = "returned"
    /\ caught = [error |-> "NameError", phase |-> 6]
    /\ report.mode = "emergency"
    /\ sections["visual_proofs_data"].src = "parsed"

\* C2 (as stated): an empty or whitespace-only response for a section makes
\* the whole run fail with an empty-model-response error; no report is
\* returned.
C2_EmptyResponseFailsRun ==
    BlankAnswer =>
        pc = "raised" /\ escaped = "ModelResponseEmptyError" /\ report = NoReport

\* C2 (amended): an empty response makes the avatar, drivers, anti-objection,
\* visual-proofs and competition sections take their fallback template, and
\* the run goes on with the next phase; a whitespace-only one does the same
\* (the avatar's fallback keeps it as raw_ai_response).  For the pre-pitch
\* section an empty response raises NameError out of the stage, which ends
\* the run in the handler of line 152, and a whitespace-only one is embedded
\* in the fixed structure.
C2_EmptyResponseTakesFallback ==
    BlankAnswer =>
        LET name == completion_answer.section
            text == completion_answer.text
        IN  IF name = "pre_pitch_data" /\ text = <<>>
            THEN /\ caught = [error |-> "NameError", phase |-> 6]
                 /\ sections[name].src = "none"
                 /\ pc \in {"returned", "raised"}
                 /\ pc = "returned" => report.mode = "emergency"
            ELSE /\ caught = NothingCaught
                 /\ pc = "phase"
                 /\ phase = PhaseOf(name) + 1
                 /\ sections[name].src =
                       (IF name = "pre_pitch_data" THEN "raw_text" ELSE "fallback")
                 /\ sections[name].raw =
                       (IF name \in {"avatar_data", "pre_pitch_data"}
                        THEN TextLen(text) ELSE 0)

C2_Witness ==
    /\ completion_answer = [section |-> "drivers_data", raised |-> FALSE, text |-> <<>>]
    /\ sections["drivers_data"].src = "fallback"
    /\ sections["avatar_data"].src = "parsed"
    /\ pc = "phase"
    /\ phase = 4

\* C3 (as stated): a non-empty response holding no valid payload makes the
\* section fail with a malformed-model-output error; the section yields no
\* value.
C3_MalformedResponseFailsSection ==
    MalformedAnswer =>
        /\ sections[completion_answer.section].src = "none"
        /\ pc = "raised"
        /\ escaped = "MalformedModelOutputError"

\* C3 (amended): a non-empty response whose cleaned text is not valid JSON
\* makes the avatar, drivers, anti-objection, visual-proofs and competition
\* sections yield their fallback template (the avatar's with the first 1000
\* characters of the response embedded) and the run goes on; the pre-pitch
\* section parses nothing: every non-empty response, with a payload or
\* without, is embedded as raw text in its fixed structure.
C3_MalformedResponseSubstituted ==
    LET name == completion_answer.section
        text == completion_answer.text
    IN  /\ MalformedAnswer /\ name # "pre_pitch_data" =>
              /\ sections[name].src = "fallback"
              /\ sections[name].raw =
                    (IF name = "avatar_data"
                     THEN Min(TextLen(text), RawResponseCap) ELSE 0)
              /\ caught = NothingCaught
              /\ pc = "phase"
              /\ phase = PhaseOf(name) + 1
        /\ Answered /\ name = "pre_pitch_data" /\ text # <<>> =>
              /\ sections[name].src = "raw_text"
              /\ sections[name].raw = TextLen(text)
              /\ caught = NothingCaught
              /\ pc = "phase"
              /\ phase = 7

C3_Witness ==
    /\ completion_answer = [section |-> "avatar_data", raised |-> FALSE, text |-> <<"t">>]
    /\ sections["avatar_data"].src = "fallback"
    /\ sections["avatar_data"].raw = RawResponseCap
    /\ pc = "phase"
    /\ phase = 3

\* C4 (as stated): when research ends with fewer than 5 results the run
\* fails with an evidence-insufficient error before any section is generated.
C4_FewResultsFailRun ==
    research_data.returned /\ research_data.total_resultados < 5 =>
        pc = "raised" /\ escaped = "EvidenceInsufficientError" /\ completionLog = <<>>

\* C4 (amended): no count of search results stops the run: research returns
\* its summary with total_resultados the number of results found, be it
\* below 5 or not, and the run goes on to generate the avatar; before the
\* avatar's completion call only a raising progress callback ends it.
C4_ResultCountNeverStopsRun ==
    research_data.returned =>
        /\ research_data.total_resultados = Len(all_results)
        /\ escaped # "EvidenceInsufficientError"
        /\ \/ completionLog # <<>>
           \/ pc = "phase" /\ phase = 2 /\ caught = NothingCaught
           \/ caught = [error |-> "CallbackError", phase |-> 2]

C4_Witness ==
    /\ research_data.returned
    /\ research_data.total_resultados = 4
    /\ sections["avatar_data"].src = "parsed"
    /\ sections["drivers_data"].src = "parsed"

\* C5 (as stated): when fewer than 3 pages were extracted the run fails with
\* an evidence-insufficient error before any section is generated, even with
\* 5 or more results.
C5_FewPagesFailRun ==
    research_data.returned /\ Pages(research_data.resultados_detalhados) < 3 =>
        pc = "raised" /\ escaped = "EvidenceInsufficientError" /\ completionLog = <<>>

\* C5 (amended): no count of extracted pages stops the run: the step that
\* ends research, with fewer than 3 pages as with more, hands the summary
\* (whose conteudo_extraido_chars is the sum of the extracted lengths) to
\* phase 2, nothing caught, and phase 2 then calls the completion
\* collaborator for the avatar unless the progress callback raises.
C5_PageCountNeverStopsRun ==
    [][ /\ ~research_data.returned /\ research_data'.returned =>
              /\ pc' = "phase"
              /\ phase' = 2
              /\ caught' = NothingCaught
              /\ research_data'.conteudo_extraido_chars =
                    SumSeq([i \in 1..Len(all_results') |-> all_results'[i].content])
        /\ research_data.returned /\ pc = "phase" /\ phase = 2 =>
              \/ completionLog' = <<"avatar_data">> /\ sections'["avatar_data"].src # "none"
              \/ caught' = [error |-> "CallbackError", phase |-> 2] ]_vars

C5_Witness ==
    /\ research_data.returned
    /\ research_data.total_resultados >= 5
    /\ Pages(research_data.resultados_detalhados) = 2
    /\ sections["avatar_data"].src = "parsed"

\* C6 (as stated): a request whose segment is missing or empty fails before
\* the search, extraction or completion collaborator is called even once.
C6_MissingSegmentRejected ==
    data.segmento \in {"missing", "empty"} =>
        searchLog = <<>> /\ extractLog = <<>> /\ completionLog = <<>>

\* C6 (amended): a request whose segment is missing or empty is not rejected:
\* the ten segment queries are built with the empty string for the segment
\* and all are sent to the search collaborator, the sections are generated,
\* and a missing segment is replaced in the sections by the default
\* 'negócios' (8 characters) while an empty one is used as it is; the only
\* exceptions such a run can end with are those of a bad price.
C6_MissingSegmentDefaulted ==
    data.segmento \in {"missing", "empty"} =>
        LET s == IF data.segmento = "missing" THEN 8 ELSE 0 IN
        /\ \A i \in 1..Len(searchLog) :
              searchLog[i].tokens = SegmentTemplates[searchLog[i].id]
        /\ research_data.returned => Len(searchLog) = Len(SegmentTemplates)
        /\ sections["positioning_data"].src # "none" =>
              sections["positioning_data"].len = 1637 + 6 * s
        /\ sections["drivers_data"].src = "fallback" =>
              sections["drivers_data"].len = 1023 + 7 * s
        /\ report.mode = "emergency" =>
              report.sections["positioning_data"].len = 1637 + 6 * s
        /\ pc = "raised" => escaped \in {"ValueError", "ZeroDivisionError"}

C6_Witness ==
    /\ data.segmento = "missing"
    /\ pc = "returned"
    /\ report.mode = "normal"
    /\ Len(searchLog) = Len(SegmentTemplates)
    /\ report.sections["positioning_data"].len = 1637 + 6 * 8

\* C7 (as stated): every report a run returns after the length check of
\* lines 139-145 has a serialized length of at least 30,000 characters.
C7_ReturnedReportAtLeastMinimum ==
    pc = "returned" /\ report.mode = "normal" => report.length >= min_report_length

\* C8 (as stated): the progress observer never affects control flow: a run
\* with an observer, raising or not, ends where the run without it can end,
\* that is after consolidation or on an exception of a stage.
C8_ObserverNeverEndsRun ==
    pc \in {"returned", "raised"} =>
        caught \in { NothingCaught,
                     [error |-> "NameError", phase |-> 6],
                     [error |-> "AttributeError", phase |-> 9],
                     [error |-> "ValueError", phase |-> 10],
                     [error |-> "ZeroDivisionError", phase |-> 10] }

\* C9: when the search collaborator raises or returns nothing for a query,
\* research goes on with the next query: the results and extracted
\* characters gathered so far are kept, the query counts as executed, no
\* exception leaves research, and research returns only after every query
\* was sent to the search collaborator.
C9_SearchFailureSkipsOneQuery ==
    [][ /\ pc = "research" /\ search_answer' \in {"raised", "empty"} =>
              /\ all_results' = all_results
              /\ total_content_chars' = total_content_chars
              /\ extractLog' = extractLog
              /\ searchLog' = Append(searchLog, ExecutedQueries(data)[qi])
              /\ qi' = qi + 1
              /\ escaped' = "none" /\ caught' = NothingCaught
              /\ pc' = IF qi < Len(ExecutedQueries(data)) THEN "research" ELSE "phase"
        /\ research_data'.returned =>
              /\ searchLog' = ExecutedQueries(data)
              /\ research_data'.resultados_detalhados = all_results' ]_vars

C9_Witness ==
    /\ pc = "research"
    /\ search_answer = "raised"
    /\ Len(all_results) >= 2
    /\ qi > 2
    /\ qi <= Len(ExecutedQueries(data))

\* C10 (as stated): when extraction fails for one url only that url is
\* skipped: in every iteration of the query loop each of the top five
\* results of the query is handed to the extraction collaborator.
C10_EveryDueUrlAttempted ==
    [][ pc = "research" =>
            Len(extractLog') - Len(extractLog)
                = Min(Len(all_results') - Len(all_results), TopPerQuery) ]_vars

\* a valid structured payload: one JSON value that is an object or an array
ValidPayload(text) ==
    /\ json_loads_ok(text)
    /\ LStrip(text) # <<>>
    /\ Head(LStrip(text)) \in {"{", "["}

\* C11 (as stated): for every valid structured payload, recovering it bare
\* gives the same value as recovering it inside a code fence with commentary
\* before the opening fence and after the closing one.
C11_RecoveryInsensitiveToWrapping ==
    pc = "recovered" /\ ValidPayload(recovery.payload) =>
        /\ recovery.bare.src = recovery.wrapped.src
        /\ recovery.bare.val = recovery.wrapped.val

\* the closing bracket of an opening one
Closer(t) == IF t = "{" THEN "}" ELSE "]"

\* the text holds no '{' and no '['
NoBracket(text) == FindTok(text, {"{", "["}) = 0

\* the first '{' or '[' of the text has no closing bracket of its kind after it
UnmatchedFirstBracket(text) ==
    LET i == FindTok(text, {"{", "["}) IN
    /\ i # 0
    /\ \A j \in (i + 1)..Len(text) : text[j] # Closer(text[i])

\* C12 (as stated): recovery fails, and yields no value, on a response that
\* holds no '{' or '[' (a bare number, a quoted string) and on one whose
\* first opening bracket has no matching closing bracket after it.
C12_RecoveryFailsWithoutBrackets ==
    pc = "recovered"
    /\ (NoBracket(recovery.payload) \/ UnmatchedFirstBracket(recovery.payload)) =>
        recovery.bare.src # "parsed"

\* position of a section in a log (0: not in it)
IndexIn(log, name) ==
    IF \E i \in 1..Len(log) : log[i] = name
    THEN CHOOSE i \in 1..Len(log) : log[i] = name
    ELSE 0

\* C13: no section generator starts before what it depends on exists: the
\* research summary has been returned, every query sent, before any section
\* is generated; the avatar is there before the drivers, anti-objection,
\* visual-proofs and pre-pitch generators are called, and was called before
\* them; the drivers are there before the pre-pitch generator is called.
C13_DependenciesBeforeSections ==
    /\ completionLog # <<>> =>
          research_data.returned /\ searchLog = ExecutedQueries(data)
    /\ \A s \in SectionNames : sections[s].src # "none" => research_data.returned
    /\ \A s \in {"drivers_data", "anti_objection_data", "visual_proofs_data",
                 "pre_pitch_data"} :
          IndexIn(completionLog, s) # 0 =>
              /\ sections["avatar_data"].src # "none"
              /\ IndexIn(completionLog, "avatar_data") # 0
              /\ IndexIn(completionLog, "avatar_data") < IndexIn(completionLog, s)
    /\ IndexIn(completionLog, "pre_pitch_data") # 0 =>
          /\ sections["drivers_data"].src # "none"
          /\ IndexIn(completionLog, "drivers_data") # 0
          /\ IndexIn(completionLog, "drivers_data")
                < IndexIn(completionLog, "pre_pitch_data")

C13_Witness ==
    /\ completionLog = <<"avatar_data", "drivers_data", "anti_objection_data",
                         "visual_proofs_data", "pre_pitch_data">>
    /\ sections["pre_pitch_data"].src = "raw_text"
    /\ sections["drivers_data"].src = "fallback"
    /\ research_data.total_resultados > 0

\* C14 (as stated): once a stage has failed no generation or assembly is
\* done afterwards and the run never reaches Done: no section is built and
\* no report reaches the caller.
C14_FailedIsAbsorbing ==
    caught.error \notin {"none", "CallbackError"} =>
        /\ pc # "returned"
        /\ \A s \in SectionNames : report.sections[s].src = "none"

\* C14 (amended): once an exception has left a stage, no phase of the run is
\* executed afterwards, none is entered again and no collaborator is called
\* (the run takes no further step); in the failing step itself the sections
\* and the research summary of the run stay as they were, and the handler
\* builds the emergency report (six fallback templates, and the positioning,
\* keyword, metrics, projection and action-plan generators called anew) and
\* returns it as the result of the run, unless building it raises.
C14_NoStageAfterFailure ==
    [][ /\ caught.error = "none"
        /\ caught'.error # "none" =>
              /\ pc' \in {"returned", "raised"}
              /\ sections' = sections
              /\ research_data' = research_data
              /\ searchLog' = searchLog
              /\ extractLog' = extractLog
              /\ Len(completionLog') <= Len(completionLog) + 1
              /\ pc' = "returned" =>
                    /\ report'.mode = "emergency"
                    /\ \A s \in AISections : report'.sections[s].src = "fallback"
                    /\ \A s \in TemplateSections : report'.sections[s].src = "template"
                    /\ report'.sections["positioning_data"]
                          = generate_positioning_strategy(data).value
                    /\ report'.sections["keywords_data"]
                          = generate_keyword_strategy(data, <<>>).value ]_vars

C14_Witness ==
    /\ caught = [error |-> "NameError", phase |-> 6]
    /\ pc = "returned"
    /\ sections["positioning_data"].src = "none"
    /\ report.sections["positioning_data"].src = "template"
    /\ sections["avatar_data"].src = "parsed"
    /\ report.sections["avatar_data"].src = "fallback"

\* what one iteration of the query loop added to the results and to the
\* urls handed to extraction, and how many of these extractions returned
NewResults == SubSeq(all_results', Len(all_results) + 1, Len(all_results'))
NewExtractions == SubSeq(extractLog', Len(extractLog) + 1, Len(extractLog'))
NewExtracted ==
    IF faults' > faults THEN Len(NewExtractions) - 1 ELSE Len(NewExtractions)

\* C15 (as stated): extraction happens only after all search queries have
\* run: while a query is still to be sent to the search collaborator, the
\* extraction collaborator has not been called.
C15_ExtractionAfterAllSearches ==
    Len(searchLog) < Len(ExecutedQueries(data)) => extractLog = <<>>

\* C15 (amended): extraction is interleaved with the searches: each
\* iteration of the query loop sends one query to the search collaborator
\* and then hands the first five results of that query, in order, to the
\* extraction collaborator (all of them unless an extraction raises), before
\* the next query is searched.
C15_ExtractionFollowsEachSearch ==
    [][ pc = "research" =>
          /\ searchLog' = Append(searchLog, ExecutedQueries(data)[qi])
          /\ Len(NewExtractions) <= Min(Len(NewResults), TopPerQuery)
          /\ faults' = faults =>
                Len(NewExtractions) = Min(Len(NewResults), TopPerQuery)
          /\ faults' > faults => Len(NewExtractions) >= 1
          /\ \A j \in 1..Len(NewExtractions) :
                NewExtractions[j] = NewResults[j].url ]_vars

C15_Witness ==
    /\ pc = "research"
    /\ Len(searchLog) = 2
    /\ Len(extractLog) = 3
    /\ Len(searchLog) < Len(ExecutedQueries(data))

\* C16 (as stated): urls are deduplicated and capped before extraction: no
\* url is handed to the extraction collaborator twice, and at most 15 are.
C16_ExtractionDedupedAndCapped ==
    /\ \A i, j \in 1..Len(extractLog) : i # j => extractLog[i] # extractLog[j]
    /\ Len(extractLog) <= 15

\* C16 (amended): urls are not deduplicated; extraction is capped per query:
\* at most five calls for each query sent, never more than there are
\* results, so at most 75 in a gather of 15 queries.
C16_ExtractionCappedPerQuery ==
    /\ Len(extractLog) <= TopPerQuery * Len(searchLog)
    /\ Len(extractLog) <= Len(all_results)
    /\ Len(searchLog) <= max_search_queries
    /\ Len(extractLog) <= TopPerQuery * max_search_queries

C16_Witness ==
    /\ Len(all_results) = 6
    /\ Len(extractLog) = 5
    /\ extractLog[1] = extractLog[4]
    /\ research_data.returned

\* C17 (as stated): a page is kept, and its length added to the content
\* total, only if its text is longer than 200 characters.
C17_ShortPagesSkipped ==
    /\ \A i \in 1..Len(all_results) :
          all_results[i].content > 0 => all_results[i].content > 200
    /\ total_content_chars = SumSeq(Contents(all_results))

\* C17 (amended): the text of every extraction that returned is kept with
\* its result, and its length added to the content total, whenever it is not
\* empty, whatever its length; the other results carry no text.
C17_EveryNonEmptyPageKept ==
    [][ pc = "research" =>
          /\ \A j \in 1..Len(NewResults) :
                NewResults[j].content
                   = IF j <= NewExtracted THEN PageLen(NewResults[j].url) ELSE 0
          /\ total_content_chars' =
                total_content_chars
                + SumSeq([j \in 1..NewExtracted |-> PageLen(NewResults[j].url)])
      ]_vars

C17_Witness ==
    /\ \E i \in 1..Len(all_results) :
          all_results[i].url = "b" /\ all_results[i].content = 150
    /\ total_content_chars = 750
    /\ research_data.conteudo_extraido_chars = 750

\* C18 (as stated): a search result whose url is empty is discarded: it is
\* not among the results, not counted, and not passed to extraction.
C18_EmptyUrlDiscarded ==
    /\ \A i \in 1..Len(all_results) : all_results[i].url # ""
    /\ \A i \in 1..Len(extractLog) : extractLog[i] # ""

\* C18 (amended): no result is discarded: every answer of the search
\* collaborator is appended whole to the results, a result with an empty url
\* included; the first result's url, empty or not, is handed to extraction;
\* and the total returned counts all of them.
C18_EveryResultKept ==
    [][ pc = "research" =>
          /\ search_answer' = "results" =>
                /\ [j \in 1..Len(NewResults) |->
                       [url |-> NewResults[j].url, title |-> NewResults[j].title]]
                      \in WideSearchMenu \ { <<>> }
                /\ NewExtractions # <<>>
                /\ NewExtractions[1] = NewResults[1].url
          /\ research_data'.returned =>
                research_data'.total_resultados = Len(all_results') ]_vars

C18_Witness ==
    /\ research_data.returned
    /\ research_data.total_resultados = 2
    /\ all_results[1].url = ""
    /\ extractLog = << "", "a" >>

C20_OneNotificationPerStage ==
    /\ progress_callback = "none" => notifyLog = <<>>
    /\ progress_callback = "present" =>
          /\ \A i \in 1..Len(notifyLog) : notifyLog[i] = i
          /\ searchLog # <<>> => Len(notifyLog) >= 1
          /\ \A i \in 1..Len(completionLog) :
                PhaseOf(completionLog[i]) <= Len(notifyLog)
          /\ \A s \in SectionNames :
                sections[s].src # "none" => PhaseOf(s) <= Len(notifyLog)
          /\ pc = "phase" => Len(notifyLog) = phase - 1
          /\ caught.error # "none" => Len(notifyLog) = caught.phase
          /\ pc = "returned" /\ caught.error = "none" =>
                Len(notifyLog) = Cardinality(SectionNames) + 1

C20_Witness ==
    /\ progress_callback = "present"
    /\ caught = [error |-> "NameError", phase |-> 6]
    /\ notifyLog = << 1, 2, 3, 4, 5, 6 >>
    /\ completionLog[Len(completionLog)] = "pre_pitch_data"
    /\ sections["competition_data"].src = "none"

\* C21: nothing is retried within a run: the completion collaborator is
\* called at most once for each section and the search collaborator at most
\* once for each generated query, whatever they returned or raised before.
C21_NothingRetried ==
    /\ \A i, j \in 1..Len(completionLog) :
          i # j => completionLog[i] # completionLog[j]
    /\ \A i \in 1..Len(completionLog) : completionLog[i] \in AISections
    /\ \A i, j \in 1..Len(searchLog) : i # j => searchLog[i].id # searchLog[j].id
    /\ Len(searchLog) <= Len(ExecutedQueries(data))
    /\ completion_answer.section # "none" =>
          /\ completionLog # <<>>
          /\ completionLog[Len(completionLog)] = completion_answer.section

C21_Witness ==
    /\ completionLog = << "avatar_data", "drivers_data" >>
    /\ sections["avatar_data"].src = "fallback"
    /\ completion_answer.section = "drivers_data"
    /\ ~completion_answer.raised
    /\ sections["drivers_data"].src = "parsed"

\* a text without a code fence
NoFence(text) == \A i \in 1..Len(text) : text[i] \notin {"F", "FJ"}

\* C22 (as stated): for a response without a fence that is commentary, a
\* valid structured payload, commentary, recovery returns the payload.
C22_PayloadAmidCommentaryRecovered ==
    pc = "recovered" /\ ValidPayload(recovery.payload) /\ NoFence(recovery.payload) =>
        /\ recovery.amid.src = "parsed"
        /\ recovery.amid.val = json_value(recovery.payload)

\* C22 (amended): for a response without a fence that is commentary, a valid
\* structured payload, commentary, recovery does not return the payload: the
\* whole stripped response goes to the JSON parser, which rejects it, and
\* the section's fallback is returned (the avatar's fallback with the first
\* 1000 characters of the response); the payload is returned only when the
\* response is the payload alone.
C22_PayloadAmidCommentaryFallsBack ==
    pc = "recovered" /\ ValidPayload(recovery.payload) /\ NoFence(recovery.payload) =>
        /\ recovery.amid.src = "fallback"
        /\ recovery.amid.raw = RawResponseCap
        /\ recovery.bare = Parsed(recovery.payload)

C22_Witness ==
    /\ pc = "recovered"
    /\ recovery.payload = << "{", "[", "n", "]", "}" >>
    /\ recovery.amid.src = "fallback"
    /\ recovery.bare.src = "parsed"

\* the longest prompt of a section over the evidence the caps of the code
\* admit: ten results (line 241) with the longest title and a page of more
\* than 500 characters, and prior sections longer than every slice
PromptBound(name, d) ==
    PromptLen(name, d,
              [resultados_detalhados |-> Evidence(10, [url |-> "d", title |-> "rival"])],
              [s \in SectionNames |-> Template(2000)])

\* C23 (as stated): the size of every prompt sent to the completion
\* collaborator is bounded by a constant that does not depend on the
\* evidence: however many results the research holds, no prompt is longer
\* than the prompt of its section for ten results and full prior sections.
C23_PromptSizeBounded ==
    completionLog # <<>> =>
        prompt_chars <= PromptBound(completionLog[Len(completionLog)], data)

\* C24 (as stated): a section is immutable once produced, and the value
\* placed in the report is the value the generator returned: every returned
\* report holds, for each section generated in the run, that value.
C24_ReportHoldsGeneratedValues ==
    pc = "returned" =>
        \A s \in SectionNames :
            sections[s].src # "none" => report.sections[s] = sections[s]

\* C25 (as stated): generate_gigantic_analysis is total: whatever the
\* request, the collaborators and the observer do, no exception reaches the
\* caller.
C25_RunIsTotal == pc # "raised" /\ escaped = "none"

\* C26 (as stated): a completion call that raises or returns an empty
\* response costs the run that section only: its generator hands back the
\* section's fallback, the other sections stay as they are and the run goes
\* on, so that the returned report holds the fallback for that section alone.
C26_CompletionFailureIsolated ==
    [][ /\ pc = "phase"
        /\ completion_answer'.section # "none"
        /\ completion_answer'.raised \/ completion_answer'.text = <<>>
        => /\ sections'[completion_answer'.section].src = "fallback"
           /\ \A s \in SectionNames \ {completion_answer'.section} :
                 sections'[s] = sections[s]
           /\ caught' = NothingCaught
           /\ report' = NoReport ]_vars

\* C27 (as stated): in every returned report metadata.report_length is the
\* length of the JSON serialization of that report.
C27_ReportLengthIsSerializedLength ==
    pc = "returned" => report.report_length = report.length

\* C28 (as stated): a returned report that is not in emergency mode and
\* carries the quality score 99.5 holds no fallback section.
C28_FallbackMarkedDegraded ==
    pc = "returned" /\ report.mode # "emergency" /\ report.quality_score = 995 =>
        \A s \in AISections : report.sections[s].src # "fallback"

\* C29: after any sequence of query successes, query failures and
\* extraction failures, the extracted characters counted so far are the sum
\* of the lengths of the texts attached to the results, and the dict that
\* research returns carries that sum and the number of its results.
C29_ResearchTotalsConsistent ==
    /\ total_content_chars = SumSeq(Contents(all_results))
    /\ research_data.returned =>
          /\ research_data.conteudo_extraido_chars
                = SumSeq(Contents(research_data.resultados_detalhados))
          /\ research_data.total_resultados
                = Len(research_data.resultados_detalhados)

C29_Witness ==
    /\ research_data.returned
    /\ faults = 1
    /\ Len(research_data.resultados_detalhados) = 5
    /\ research_data.conteudo_extraido_chars = 600
    /\ extractLog = << "a", "c", "", "a" >>

\* C30: once the handler has caught a failure no collaborator is called: the
\* run is over, the observer was last notified for the phase that failed,
\* the completion collaborator was last called for that phase at the
\* latest, and the searches and extractions are those of the research
\* (none when the failure came before it).
C30_NoCollaboratorCallAfterFailure ==
    caught.error # "none" =>
        /\ pc \in {"returned", "raised"}
        /\ Len(notifyLog) <= caught.phase
        /\ \A i \in 1..Len(notifyLog) : notifyLog[i] <= caught.phase
        /\ \A i \in 1..Len(completionLog) :
              PhaseOf(completionLog[i]) <= caught.phase
        /\ Len(completionLog)
              <= Cardinality({s \in AISections : PhaseOf(s) <= caught.phase})
        /\ IF caught.phase = 1
           THEN searchLog = <<>> /\ extractLog = <<>>
           ELSE /\ research_data.returned
                /\ searchLog = ExecutedQueries(data)
                /\ Len(extractLog) <= Len(research_data.resultados_detalhados)

C30_Witness ==
    /\ caught = [error |-> "NameError", phase |-> 6]
    /\ pc = "returned"
    /\ report.mode = "emergency"
    /\ report.sections["keywords_data"].src = "template"
    /\ Len(completionLog) = 5
    /\ Len(searchLog) = 10
    /\ Len(extractLog) = 3
====
